---- MODULE Spec2Model ----
(***************************************************************************)
(* Model of the persistence layer of third-law-backend:                    *)
(*   src/src/core/db_client.py  ConnectionPool, ClickHouseClient           *)
(* A fixed set of caller threads each run one ClickHouseClient operation   *)
(* against one shared ConnectionPool and one remote `documents` table.     *)
(* The state is the one after ClickHouseClient.__init__ has returned: the  *)
(* pool is filled, the constructor has borrowed and released a connection, *)
(* and the documents table exists and is empty.                            *)
(* Three further specifications cover the read operations over stored      *)
(* documents (SpecQuery), the Extraction Pipeline of                       *)
(*   src/src/core/text_processor.py  RegexHandler, PDFTextProcessor        *)
(* (SpecText), and application startup, src/src/main.py init_db_client and *)
(* startup with ClickHouseClient.__init__ (SpecBoot).                      *)
(* Every client.execute and every Client(...) construction either succeeds *)
(* or raises: the remote store may fail at any call.                       *)
(***************************************************************************)
EXTENDS Integers, Sequences, FiniteSets, Bags, TLC

\* ------------------------------------------------------------------ bounds
\* Number of caller threads.
NCallers == 2
\* ConnectionPool(size) is modelled for every size N in 1..MaxPoolSize
\* (ClickHouseClient passes 5), so that both N+k callers over N connections
\* and several connections lent at once are reached.
MaxPoolSize == 2
\* The clock (datetime.utcnow() in milliseconds) runs from 0 to MaxTime.
MaxTime == 2
\* Texts given to process_text have at most MaxTextLen tokens.
MaxTextLen == 3

\* ------------------------------------------------------------ input sets
Callers == 1..NCallers
DocIds == {"d1", "d2"}
Filenames == {"a.pdf"}
\* A content string is the sequence of its characters, so that len() is Len.
Contents == {<<"x">>, <<"y", "y">>}
\* analysis_result dictionaries handed to store_document.
Analyses ==
    {[success |-> TRUE,
      statistics |-> [total_findings |-> 1,
                      findings_by_type |-> [email |-> 1]]]}
Limits == {2}
Offsets == {0, 2}

Ops == {"store_document", "get_document", "get_document_by_filename",
        "get_statistics", "get_all_documents"}

\* ------------------------------------------------------------------ state
VARIABLES
    size,       \* ConnectionPool.size: the pool size N, fixed at construction
    pool,       \* ConnectionPool.pool: the Queue of idle connections (FIFO)
    nextConn,   \* identity of the next Client object to be constructed
    discarded,  \* connections whose release-time probe failed (dropped objects)
    table,      \* the rows of the remote documents table (a bag of rows)
    now,        \* the clock read by datetime.utcnow()
    pc,         \* per caller: position in its operation
    op,         \* per caller: the operation it runs
    args,       \* per caller: the operation's arguments and prepared data
    held,       \* per caller: connections it holds inside a with-body
    existing,   \* per caller: store_document's local `existing[0][0]`
    body,       \* per caller: how the with-body ended (return value / exception)
    ret,        \* per caller: what the operation handed back to its caller
    after,      \* per caller: the store_document calls that had returned
                \* when this caller's store_document was called
    text,         \* process_text: its argument, a sequence of tokens
    tpc,          \* process_text: position in the call
    handled,      \* process_text: handlers of self.handlers already run
    all_findings, \* process_text: the local list all_findings
    result,       \* process_text: the dictionary handed back (or the raise)
    tables,     \* names of the tables that exist in the remote database
    bpc,        \* per application process: position in startup
    attempt,    \* per application process: init_db_client's loop variable
    found,      \* per application process: _ensure_table_exists's `result`
    pending,    \* per application process: the exception in flight, if any
    db_client   \* per application process: the module global db_client

\* The state of the Storage Client and its pool, of the Extraction Pipeline,
\* and of application startup.
storeVars == <<size, pool, nextConn, discarded, table, now,
               pc, op, args, held, existing, body, ret, after>>
textVars == <<text, tpc, handled, all_findings, result>>
bootVars == <<tables, bpc, attempt, found, pending, db_client>>

vars == <<size, pool, nextConn, discarded, table, now,
          pc, op, args, held, existing, body, ret, after,
          text, tpc, handled, all_findings, result,
          tables, bpc, attempt, found, pending, db_client>>

\* --------------------------------------------------------------- helpers
Range(s) == {s[i] : i \in 1..Len(s)}

\* dict.get(key, default)
Get(d, k, default) == IF k \in DOMAIN d THEN d[k] ELSE default

\* json.dumps / json.loads: the stored blob is a string, not the dictionary.
JsonDumps(a) == <<"json", a>>
JsonLoads(s) == s[2]

\* datetime.isoformat()
IsoFormat(t) == <<"iso", t>>

\* Python values handed back to callers, tagged with their type so that
\* None, False, {} and [] stay distinct.
PyNone == <<"None">>
PyBool(b) == <<"bool", b>>
PyDict(d) == <<"dict", d>>
PyList(l) == <<"list", l>>

NoArgs ==
    [document_id |-> "", filename |-> "", content |-> <<>>,
     analysis_result |-> <<>>, timestamp |-> 0, limit |-> 0, offset |-> 0]

NoBody == [kind |-> "none", val |-> PyNone, exc |-> "none"]
NoRet == [raised |-> FALSE, val |-> PyNone, err |-> "none"]

\* Connections lent to callers, and how many loans are out.
Lent == UNION {held[c] : c \in Callers}

LentCount ==
    LET RECURSIVE Sum(_)
        Sum(S) == IF S = {} THEN 0
                  ELSE LET c == CHOOSE x \in S : TRUE
                       IN Cardinality(held[c]) + Sum(S \ {c})
    IN Sum(Callers)

\* Connections the pool owns: idle in the queue plus lent to callers.
Owned == Len(pool) + LentCount

\* A finally block that puts the connection back even when its probe failed.
AfterReleaseRequeuesBroken(q, n, d, conn, probeOk, constructOk) ==
    IF probeOk
    THEN [pool |-> Append(q, conn), nextConn |-> n, discarded |-> d]
    ELSE [pool |-> Append(q, conn), nextConn |-> n,
          discarded |-> d \cup {conn}]

\* A finally block that constructs the replacement but never enqueues it.
AfterReleaseForgetsPut(q, n, d, conn, probeOk, constructOk) ==
    IF probeOk
    THEN [pool |-> Append(q, conn), nextConn |-> n, discarded |-> d]
    ELSE IF constructOk
    THEN [pool |-> q, nextConn |-> n + 1, discarded |-> d \cup {conn}]
    ELSE [pool |-> q, nextConn |-> n, discarded |-> d \cup {conn}]

\* A finally block that puts a healthy connection back twice.
AfterReleasePutsTwice(q, n, d, conn, probeOk, constructOk) ==
    IF probeOk
    THEN [pool |-> Append(Append(q, conn), conn), nextConn |-> n,
          discarded |-> d]
    ELSE IF constructOk
    THEN [pool |-> Append(q, n), nextConn |-> n + 1,
          discarded |-> d \cup {conn}]
    ELSE [pool |-> q, nextConn |-> n, discarded |-> d \cup {conn}]

\* A finally block that probes a healthy connection and then forgets it.
AfterReleaseLeaks(q, n, d, conn, probeOk, constructOk) ==
    IF probeOk
    THEN [pool |-> q, nextConn |-> n, discarded |-> d]
    ELSE IF constructOk
    THEN [pool |-> Append(q, n), nextConn |-> n + 1,
          discarded |-> d \cup {conn}]
    ELSE [pool |-> q, nextConn |-> n, discarded |-> d \cup {conn}]

\* A finally block that tops the queue up with a further new Client whenever
\* it puts a healthy connection back.
AfterReleaseRefills(q, n, d, conn, probeOk, constructOk) ==
    IF probeOk
    THEN [pool |-> Append(Append(q, conn), n), nextConn |-> n + 1,
          discarded |-> d]
    ELSE IF constructOk
    THEN [pool |-> Append(q, n), nextConn |-> n + 1,
          discarded |-> d \cup {conn}]
    ELSE [pool |-> q, nextConn |-> n, discarded |-> d \cup {conn}]

\* The finally block of get_connection for a borrowed connection: probe it
\* with SELECT 1, put it back, or drop it and enqueue a fresh Client; a
\* failed construction is logged and swallowed.
\* q, n, d: the queue, the next connection identity, the dropped connections.
AfterRelease(q, n, d, conn, probeOk, constructOk) ==
    IF probeOk
    THEN [pool |-> Append(q, conn), nextConn |-> n, discarded |-> d]
    ELSE IF constructOk
    THEN [pool |-> Append(q, n), nextConn |-> n + 1,
          discarded |-> d \cup {conn}]
    ELSE [pool |-> q, nextConn |-> n, discarded |-> d \cup {conn}]


\* A _fill_pool that constructs one Client more than `size`.
FillPoolOverfull(n) == [i \in 1..(n + 1) |-> i]

\* _fill_pool: `size` Client objects, enqueued in the order constructed.
FillPool(n) == [i \in 1..n |-> i]

\* Application processes (each runs main.py) that start against the same
\* remote database.
Apps == {1, 2}

\* process_text has not returned.
NoResult == [raised |-> FALSE, value |-> <<>>]

\* The pool once ClickHouseClient.__init__ has returned: it was filled, and
\* the constructor's own with-block borrowed the first connection and
\* released it through get_connection's finally block.
InitPool ==
    /\ size \in 1..MaxPoolSize
    /\ \E probeOk \in BOOLEAN, constructOk \in BOOLEAN :
         LET r == AfterRelease(Tail(FillPool(size)), size + 1, {},
                               Head(FillPool(size)), probeOk, constructOk)
         IN /\ pool = r.pool
            /\ nextConn = r.nextConn
            /\ discarded = r.discarded

\* No caller thread has called an operation yet.
InitCallers ==
    /\ pc = [c \in Callers |-> "idle"]
    /\ op = [c \in Callers |-> "none"]
    /\ args = [c \in Callers |-> NoArgs]
    /\ held = [c \in Callers |-> {}]
    /\ existing = [c \in Callers |-> 0]
    /\ body = [c \in Callers |-> NoBody]
    /\ ret = [c \in Callers |-> NoRet]
    /\ after = [c \in Callers |-> {}]

\* process_text has not been called.
InitProcessor ==
    /\ text = <<>>
    /\ tpc = "idle"
    /\ handled = 0
    /\ all_findings = <<>>
    /\ result = NoResult

\* No application process has run its startup handler: db_client = None.
InitApps ==
    /\ bpc = [a \in Apps |-> "idle"]
    /\ attempt = [a \in Apps |-> 0]
    /\ found = [a \in Apps |-> FALSE]
    /\ pending = [a \in Apps |-> "none"]
    /\ db_client = [a \in Apps |-> PyNone]

\* The state once ClickHouseClient.__init__ has returned, in a database
\* whose documents table exists and is empty.
Init ==
    /\ InitPool
    /\ table = EmptyBag
    /\ now = 0
    /\ InitCallers
    /\ InitProcessor
    /\ tables = {"documents"}
    /\ InitApps

\* ---------------------------------------------------- the remote store
\* Rows of the documents table whose document_id is id, with multiplicity.
\* MergeTree keeps every inserted row: its PRIMARY KEY is an index, not a
\* uniqueness constraint.
CountById(id) ==
    LET S == {r \in BagToSet(table) : r.document_id = id}
        RECURSIVE Sum(_)
        Sum(T) == IF T = {} THEN 0
                  ELSE LET r == CHOOSE x \in T : TRUE
                       IN CopiesIn(r, table) + Sum(T \ {r})
    IN Sum(S)

\* Columns of the table's sorting key: ORDER BY (upload_timestamp, document_id).
SortingKeyColumns == {"upload_timestamp", "document_id"}

\* Columns assigned by store_document's ALTER TABLE ... UPDATE.
UpdatedColumns ==
    {"filename", "upload_timestamp", "content", "content_length",
     "analysis_result", "sensitive_info_count", "email_count", "ssn_count"}

\* A MergeTree mutation may not assign a key column: the server answers
\* "Cannot UPDATE key column" and client.execute raises.
UpdateAccepted == UpdatedColumns \cap SortingKeyColumns = {}

\* A data tuple whose e-mail and SSN counters are taken from each other's key.
DataRowSwapsCounts(a, t) ==
    LET stats == Get(a.analysis_result, "statistics", <<>>)
        findings_by_type == Get(stats, "findings_by_type", <<>>)
    IN [document_id |-> a.document_id,
        filename |-> a.filename,
        upload_timestamp |-> t,
        content |-> a.content,
        content_length |-> Len(a.content),
        analysis_result |-> JsonDumps(a.analysis_result),
        sensitive_info_count |-> Get(stats, "total_findings", 0),
        email_count |-> Get(findings_by_type, "ssn", 0),
        ssn_count |-> Get(findings_by_type, "email", 0)]

\* The tuple store_document prepares as `data` (and the UPDATE parameters,
\* which are the same expressions with a timestamp read at the update).
DataRow(a, t) ==
    LET stats == Get(a.analysis_result, "statistics", <<>>)
        findings_by_type == Get(stats, "findings_by_type", <<>>)
    IN [document_id |-> a.document_id,
        filename |-> a.filename,
        upload_timestamp |-> t,
        content |-> a.content,
        content_length |-> Len(a.content),
        analysis_result |-> JsonDumps(a.analysis_result),
        sensitive_info_count |-> Get(stats, "total_findings", 0),
        email_count |-> Get(findings_by_type, "email", 0),
        ssn_count |-> Get(findings_by_type, "ssn", 0)]

\* INSERT INTO documents (...) VALUES data
InsertRow(row) == table (+) SetToBag({row})

\* ALTER TABLE documents UPDATE ... WHERE document_id = id, once accepted:
\* every row with that id takes the new column values.
UpdateRows(row) ==
    LET hit == {r \in BagToSet(table) : r.document_id = row.document_id}
        rest == [r \in BagToSet(table) \ hit |-> CopiesIn(r, table)]
    IN rest (+) [r \in {row} |-> CountById(row.document_id)]

\* ------------------------------------------------------- ConnectionPool
\* Queue.put blocks while the queue holds maxsize items.
PutBlocks(probeOk, constructOk) ==
    (probeOk \/ constructOk) /\ Len(pool) >= size

\* --------------------------------------------------- ClickHouseClient
\* What each operation's `except Exception` clause returns.
Degraded(o) ==
    CASE o = "store_document" -> PyBool(FALSE)
      [] o = "get_document" -> PyNone
      [] o = "get_document_by_filename" -> PyNone
      [] o = "get_statistics" -> PyDict(<<>>)
      [] o = "get_all_documents" -> PyList(<<>>)

\* An except clause that misses queue.Empty, which then reaches the caller.
CatchMissesEmpty(o, exc) ==
    IF exc = "Empty"
    THEN [raised |-> TRUE, val |-> PyNone, err |-> exc]
    ELSE [raised |-> FALSE, val |-> Degraded(o), err |-> exc]

\* The except clause: every Exception (queue.Empty included) is logged and
\* turned into the degraded value.
Catch(o, exc) == [raised |-> FALSE, val |-> Degraded(o), err |-> exc]

\* How the operation ends once the with-block has been left.
Complete(o, b) ==
    IF b.kind = "return"
    THEN [raised |-> FALSE, val |-> b.val, err |-> "none"]
    ELSE Catch(o, b.exc)

\* A finally block whose replacement construction is not guarded: its
\* exception leaves get_connection and lands in the operation's except clause.
ReleaseOutcomePropagates(o, b, probeOk, constructOk) ==
    IF ~probeOk /\ ~constructOk
    THEN [raised |-> FALSE, val |-> Degraded(o), err |-> "construct"]
    ELSE IF b.kind = "return"
    THEN [raised |-> FALSE, val |-> b.val, err |-> "none"]
    ELSE [raised |-> FALSE, val |-> Degraded(o), err |-> b.exc]

\* Leaving get_connection: the probe's and the construction's exceptions are
\* both caught inside the finally block, so the operation ends as its
\* with-body ended, whatever happens to the connection.
ReleaseOutcome(o, b, probeOk, constructOk) == Complete(o, b)

Returned(v) == [kind |-> "return", val |-> v, exc |-> "none"]
Raised(e) == [kind |-> "raise", val |-> PyNone, exc |-> e]

\* The dictionary get_document and get_document_by_filename build from a row.
DocDict(r) ==
    [document_id |-> r.document_id,
     filename |-> r.filename,
     upload_timestamp |-> IsoFormat(r.upload_timestamp),
     content |-> r.content,
     content_length |-> r.content_length,
     analysis_result |-> JsonLoads(r.analysis_result),
     sensitive_info_count |-> r.sensitive_info_count,
     email_count |-> r.email_count,
     ssn_count |-> r.ssn_count]

\* The dictionary get_all_documents builds from a row.
SummaryDict(r) ==
    [document_id |-> r.document_id,
     filename |-> r.filename,
     upload_timestamp |-> IsoFormat(r.upload_timestamp),
     content_length |-> r.content_length,
     sensitive_info_count |-> r.sensitive_info_count,
     email_count |-> r.email_count,
     ssn_count |-> r.ssn_count]

\* SELECT ... WHERE document_id = id LIMIT 1: any one matching row.
GetDocumentResults(id) ==
    LET m == {r \in BagToSet(table) : r.document_id = id}
    IN IF m = {} THEN {PyNone} ELSE {PyDict(DocDict(r)) : r \in m}

\* A filename lookup without its ORDER BY: any one matching row.
GetByFilenameUnordered(f) ==
    LET m == {r \in BagToSet(table) : r.filename = f}
    IN IF m = {} THEN {PyNone} ELSE {PyDict(DocDict(r)) : r \in m}

\* SELECT ... WHERE filename = f ORDER BY upload_timestamp DESC LIMIT 1
GetByFilenameResults(f) ==
    LET m == {r \in BagToSet(table) : r.filename = f}
        top == {r \in m : \A q \in m : q.upload_timestamp <= r.upload_timestamp}
    IN IF m = {} THEN {PyNone} ELSE {PyDict(DocDict(r)) : r \in top}

\* The orders ORDER BY upload_timestamp DESC may give the table's rows:
\* rows of equal timestamp come in any order.
Orderings ==
    LET n == BagCardinality(table)
        S == BagToSet(table)
    IN {s \in [1..n -> S] :
          /\ \A r \in S : Cardinality({i \in 1..n : s[i] = r}) = CopiesIn(r, table)
          /\ \A i \in 1..n : \A j \in 1..n :
               i < j => s[i].upload_timestamp >= s[j].upload_timestamp}

\* ... LIMIT limit OFFSET offset
Page(s, limit, offset) ==
    LET last == IF offset + limit < Len(s) THEN offset + limit ELSE Len(s)
    IN [i \in 1..(IF last > offset THEN last - offset ELSE 0) |-> s[offset + i]]

GetAllResults(limit, offset) ==
    {PyList([i \in 1..Len(Page(s, limit, offset)) |->
               SummaryDict(Page(s, limit, offset)[i])]) : s \in Orderings}

\* sum(column) over the table.
SumColumn(col) ==
    LET RECURSIVE Sum(_)
        Sum(T) == IF T = {} THEN 0
                  ELSE LET r == CHOOSE x \in T : TRUE
                       IN CopiesIn(r, table) * r[col] + Sum(T \ {r})
    IN Sum(BagToSet(table))

\* max(column) over the table; 0 over no rows (the UInt32 default).
MaxColumn(col) ==
    LET S == BagToSet(table)
    IN IF S = {} THEN 0
       ELSE (CHOOSE r \in S : \A q \in S : q[col] <= r[col])[col]

\* The single row of the aggregate query, as the dictionary get_statistics
\* builds.  avg() over no rows is NaN; float() keeps it.
GetStatisticsResult ==
    LET n == BagCardinality(table)
    IN PyDict(
       [total_documents |-> n,
        total_sensitive_info |-> SumColumn("sensitive_info_count"),
        total_emails |-> SumColumn("email_count"),
        total_ssns |-> SumColumn("ssn_count"),
        avg_sensitive_per_doc |->
            [nan |-> n = 0, num |-> SumColumn("sensitive_info_count"), den |-> n],
        max_sensitive_in_doc |-> MaxColumn("sensitive_info_count")])

\* The values the with-body of a read operation can return.
ReadResults(o, a) ==
    CASE o = "get_document" -> GetDocumentResults(a.document_id)
      [] o = "get_document_by_filename" -> GetByFilenameResults(a.filename)
      [] o = "get_statistics" -> {GetStatisticsResult}
      [] o = "get_all_documents" -> GetAllResults(a.limit, a.offset)

\* ----------------------------------------------------------------- actions
\* datetime.utcnow() advances.
Tick ==
    /\ now < MaxTime
    /\ now' = now + 1
    /\ UNCHANGED <<textVars, bootVars, size, pool, nextConn, discarded, table,
                   pc, op, args, held, existing, body, ret, after>>

\* The store_document calls that have returned.
StoresReturned ==
    {d \in Callers : pc[d] = "done" /\ op[d] = "store_document"}

\* A caller enters store_document: the data tuple is prepared, with its
\* timestamp, before the connection is requested.
CallStore(c, ids, contents) ==
    /\ pc[c] = "idle"
    /\ \E id \in ids, f \in Filenames, x \in contents, a \in Analyses :
         /\ args' = [args EXCEPT ![c] =
                [NoArgs EXCEPT !.document_id = id, !.filename = f,
                               !.content = x, !.analysis_result = a,
                               !.timestamp = now]]
         /\ after' = [after EXCEPT ![c] = StoresReturned]
    /\ op' = [op EXCEPT ![c] = "store_document"]
    /\ pc' = [pc EXCEPT ![c] = "acquire"]
    /\ UNCHANGED <<textVars, bootVars, size, pool, nextConn, discarded, table, now,
                   held, existing, body, ret>>

\* A caller enters one of the read operations.
CallRead(c, ids, filenames, offsets) ==
    /\ pc[c] = "idle"
    /\ \E o \in Ops \ {"store_document"} :
         /\ op' = [op EXCEPT ![c] = o]
         /\ \E id \in ids, f \in filenames, l \in Limits, k \in offsets :
              args' = [args EXCEPT ![c] =
                CASE o = "get_document" -> [NoArgs EXCEPT !.document_id = id]
                  [] o = "get_document_by_filename" -> [NoArgs EXCEPT !.filename = f]
                  [] o = "get_statistics" -> NoArgs
                  [] o = "get_all_documents" ->
                        [NoArgs EXCEPT !.limit = l, !.offset = k]]
    /\ pc' = [pc EXCEPT ![c] = "acquire"]
    /\ UNCHANGED <<textVars, bootVars, size, pool, nextConn, discarded, table, now,
                   held, existing, body, ret, after>>

\* An acquire that reads the head of the queue without removing it.
AcquireWithoutDequeue(c) ==
    /\ pc[c] = "acquire"
    /\ pool # <<>>
    /\ held' = [held EXCEPT ![c] = @ \cup {Head(pool)}]
    /\ pool' = pool
    /\ pc' = [pc EXCEPT ![c] =
                IF op[c] = "store_document" THEN "check" ELSE "query"]
    /\ UNCHANGED <<textVars, bootVars, size, nextConn, discarded, table, now,
                   op, args, existing, body, ret, after>>

\* pool.get(timeout=5) hands over the head of the queue; the with-body starts.
Acquire(c) ==
    /\ pc[c] = "acquire"
    /\ pool # <<>>
    /\ held' = [held EXCEPT ![c] = @ \cup {Head(pool)}]
    /\ pool' = Tail(pool)
    /\ pc' = [pc EXCEPT ![c] =
                IF op[c] = "store_document" THEN "check" ELSE "query"]
    /\ UNCHANGED <<textVars, bootVars, size, nextConn, discarded, table, now,
                   op, args, existing, body, ret, after>>

\* A timeout whose finally block lacks the `if connection:` guard: the probe
\* of None raises and a replacement is constructed and enqueued.
TimeoutRunsReplacement(c) ==
    /\ pc[c] = "acquire"
    /\ pool = <<>>
    /\ pool' = Append(pool, nextConn)
    /\ nextConn' = nextConn + 1
    /\ ret' = [ret EXCEPT ![c] = Catch(op[c], "Empty")]
    /\ pc' = [pc EXCEPT ![c] = "done"]
    /\ UNCHANGED <<textVars, bootVars, size, discarded, table, now,
                   op, args, held, existing, body, after>>

\* pool.get(timeout=5) finds the queue empty for the whole wait and raises
\* queue.Empty: `connection` is still None, the finally block does nothing,
\* and the operation's except clause returns the degraded value.
Timeout(c) ==
    /\ pc[c] = "acquire"
    /\ pool = <<>>
    /\ ret' = [ret EXCEPT ![c] = Catch(op[c], "Empty")]
    /\ pc' = [pc EXCEPT ![c] = "done"]
    /\ UNCHANGED <<textVars, bootVars, size, pool, nextConn, discarded, table, now,
                   op, args, held, existing, body, after>>

\* store_document: SELECT count() FROM documents WHERE document_id = id
StoreCheck(c) ==
    /\ pc[c] = "check"
    /\ \E ok \in BOOLEAN :
         IF ok
         THEN /\ existing' = [existing EXCEPT ![c] = CountById(args[c].document_id)]
              /\ pc' = [pc EXCEPT ![c] = "write"]
              /\ body' = body
         ELSE /\ body' = [body EXCEPT ![c] = Raised("query")]
              /\ pc' = [pc EXCEPT ![c] = "release"]
              /\ existing' = existing
    /\ UNCHANGED <<textVars, bootVars, size, pool, nextConn, discarded, table, now,
                   op, args, held, ret, after>>

\* A store_document that INSERTs whatever the existence check counted.
StoreWriteAlwaysInserts(c) ==
    /\ pc[c] = "write"
    /\ \E ok \in BOOLEAN :
         IF ok
         THEN /\ table' = InsertRow(DataRow(args[c], args[c].timestamp))
              /\ body' = [body EXCEPT ![c] = Returned(PyBool(TRUE))]
         ELSE /\ table' = table
              /\ body' = [body EXCEPT ![c] = Raised("query")]
    /\ pc' = [pc EXCEPT ![c] = "release"]
    /\ UNCHANGED <<textVars, bootVars, size, pool, nextConn, discarded, now,
                   op, args, held, existing, ret, after>>

\* A store_document that runs its check again when the write has failed.
StoreWriteRetries(c) ==
    /\ pc[c] = "write"
    /\ \E ok \in BOOLEAN :
         IF ok /\ existing[c] = 0
         THEN /\ table' = InsertRow(DataRow(args[c], args[c].timestamp))
              /\ body' = [body EXCEPT ![c] = Returned(PyBool(TRUE))]
              /\ pc' = [pc EXCEPT ![c] = "release"]
         ELSE /\ table' = table
              /\ body' = body
              /\ pc' = [pc EXCEPT ![c] = "check"]
    /\ UNCHANGED <<textVars, bootVars, size, pool, nextConn, discarded, now,
                   op, args, held, existing, ret, after>>

\* store_document: the UPDATE when the check counted a row, else the INSERT.
StoreWrite(c) ==
    /\ pc[c] = "write"
    /\ \E ok \in BOOLEAN :
         IF existing[c] > 0
         THEN IF ok /\ UpdateAccepted
              THEN /\ table' = UpdateRows(DataRow(args[c], now))
                   /\ body' = [body EXCEPT ![c] = Returned(PyBool(TRUE))]
              ELSE /\ table' = table
                   /\ body' = [body EXCEPT ![c] =
                         Raised(IF ok THEN "update_key_column" ELSE "query")]
         ELSE IF ok
              THEN /\ table' = InsertRow(DataRow(args[c], args[c].timestamp))
                   /\ body' = [body EXCEPT ![c] = Returned(PyBool(TRUE))]
              ELSE /\ table' = table
                   /\ body' = [body EXCEPT ![c] = Raised("query")]
    /\ pc' = [pc EXCEPT ![c] = "release"]
    /\ UNCHANGED <<textVars, bootVars, size, pool, nextConn, discarded, now,
                   op, args, held, existing, ret, after>>

\* The single query of get_document, get_document_by_filename,
\* get_statistics and get_all_documents, and the value built from its rows.
ReadQuery(c) ==
    /\ pc[c] = "query"
    /\ \/ \E v \in ReadResults(op[c], args[c]) :
            body' = [body EXCEPT ![c] = Returned(v)]
       \/ body' = [body EXCEPT ![c] = Raised("query")]
    /\ pc' = [pc EXCEPT ![c] = "release"]
    /\ UNCHANGED <<textVars, bootVars, size, pool, nextConn, discarded, table, now,
                   op, args, held, existing, ret, after>>

\* A get_connection that releases after the yield without try/finally: a
\* with-body that raises leaves its connection with the caller.
ReleaseSkippedOnError(c) ==
    /\ pc[c] = "release"
    /\ IF body[c].kind = "raise"
       THEN UNCHANGED <<pool, nextConn, discarded, held>>
       ELSE \E conn \in held[c], probeOk \in BOOLEAN, constructOk \in BOOLEAN :
              /\ ~PutBlocks(probeOk, constructOk)
              /\ LET r == AfterRelease(pool, nextConn, discarded,
                                       conn, probeOk, constructOk)
                 IN /\ pool' = r.pool
                    /\ nextConn' = r.nextConn
                    /\ discarded' = r.discarded
              /\ held' = [held EXCEPT ![c] = @ \ {conn}]
    /\ ret' = [ret EXCEPT ![c] = Complete(op[c], body[c])]
    /\ body' = [body EXCEPT ![c] = NoBody]
    /\ existing' = [existing EXCEPT ![c] = 0]
    /\ pc' = [pc EXCEPT ![c] = "done"]
    /\ UNCHANGED <<textVars, bootVars, size, table, now, op, args, after>>

\* The with-block is left (by return or by exception): get_connection's
\* finally block runs, then the operation returns to its caller.
Release(c) ==
    /\ pc[c] = "release"
    /\ \E conn \in held[c], probeOk \in BOOLEAN, constructOk \in BOOLEAN :
         /\ ~PutBlocks(probeOk, constructOk)
         /\ LET r == AfterRelease(pool, nextConn, discarded,
                                  conn, probeOk, constructOk)
            IN /\ pool' = r.pool
               /\ nextConn' = r.nextConn
               /\ discarded' = r.discarded
         /\ held' = [held EXCEPT ![c] = @ \ {conn}]
         /\ ret' = [ret EXCEPT ![c] =
                      ReleaseOutcome(op[c], body[c], probeOk, constructOk)]
    /\ body' = [body EXCEPT ![c] = NoBody]
    /\ existing' = [existing EXCEPT ![c] = 0]
    /\ pc' = [pc EXCEPT ![c] = "done"]
    /\ UNCHANGED <<textVars, bootVars, size, table, now, op, args, after>>

\* Every caller thread runs one operation, of any kind, on one document.
Next ==
    \E c \in Callers :
        \/ CallStore(c, {"d1"}, {<<"x">>})
        \/ CallRead(c, {"d1"}, Filenames, {0})
        \/ Acquire(c)
        \/ Timeout(c)
        \/ StoreCheck(c)
        \/ StoreWrite(c)
        \/ ReadQuery(c)
        \/ Release(c)

Spec == Init /\ [][Next]_vars

\* A step of caller c's thread inside a store_document it has called.
CallerStep(c) ==
    \/ Acquire(c)
    \/ Timeout(c)
    \/ StoreCheck(c)
    \/ StoreWrite(c)
    \/ Release(c)

\* Every caller thread calls store_document once.
NextFair ==
    \E c \in Callers :
        \/ CallStore(c, {"d1"}, {<<"x">>})
        \/ CallerStep(c)

\* Threads that are scheduled again and again: a thread inside an operation
\* is not suspended for ever (its queries return or raise, and pool.get
\* returns or raises after its 5 s timeout).
SpecFair ==
    Init /\ [][NextFair]_vars /\ \A c \in Callers : WF_vars(CallerStep(c))

\* Two threads that each call store_document, on any document and content,
\* while the clock runs.
Writers == {1, 2}

NextStore ==
    \/ Tick
    \/ \E c \in Writers :
         \/ CallStore(c, DocIds, Contents)
         \/ Acquire(c)
         \/ Timeout(c)
         \/ StoreCheck(c)
         \/ StoreWrite(c)
         \/ Release(c)

SpecStore == Init /\ [][NextStore]_vars

\* Documents found stored by the read operations, each under its own id, in
\* the order in which they were stored.
StoredIds == <<"d1", "d2", "d3", "d4">>

\* The record store_document inserts for document id at time t.
StoredRow(id, t) ==
    DataRow([NoArgs EXCEPT !.document_id = id, !.filename = "a.pdf",
                           !.content = <<"x">>,
                           !.analysis_result = CHOOSE a \in Analyses : TRUE],
            t)

\* The tables that store_document calls for the first k ids, made one after
\* the other while the clock runs, leave behind: one record per id, a later
\* one never with an earlier timestamp, several of them in the same
\* millisecond or not.
StoredTables ==
    UNION {{SetToBag({StoredRow(StoredIds[i], ts[i]) : i \in 1..k}) :
               ts \in {t \in [1..k -> 0..MaxTime] :
                          \A i \in 1..k : \A j \in 1..k :
                              i < j => t[i] <= t[j]}} :
           k \in 0..Len(StoredIds)}

\* The state once the client is constructed and documents have been stored.
InitQuery ==
    /\ InitPool
    /\ table \in StoredTables
    /\ now = MaxTime
    /\ InitCallers
    /\ InitProcessor
    /\ tables = {"documents"}
    /\ InitApps

\* Names looked up by get_document_by_filename: one that records carry and
\* one that no record carries.
LookupFilenames == {"a.pdf", "b.pdf"}

\* Two threads of a client that calls the read operations one after the
\* other over a fixed set of stored documents: the second calls once the
\* first has returned.
Readers == {1, 2}

NextQuery ==
    \E c \in Readers :
        \/ /\ \A d \in Readers : d < c => pc[d] = "done"
           /\ CallRead(c, {"d1"}, LookupFilenames, Offsets)
        \/ Acquire(c)
        \/ Timeout(c)
        \/ ReadQuery(c)
        \/ Release(c)

SpecQuery == InitQuery /\ [][NextQuery]_vars

\* ------------------------------------------------- Extraction Pipeline
\* A text is a sequence of tokens separated by one space; a token is a word
\* that matches no pattern, an e-mail address, an SSN-shaped number, or an
\* e-mail address whose local part is an SSN-shaped number.
Tokens == {"hi", "a@b.co", "123-45-6789", "123-45-6789@b.co"}

Texts == UNION {[1..n -> Tokens] : n \in 0..MaxTextLen}

\* len(token)
Chars(k) ==
    CASE k = "hi" -> 2
      [] k = "a@b.co" -> 6
      [] k = "123-45-6789" -> 11
      [] k = "123-45-6789@b.co" -> 16

\* Character position at which token i of text t starts.
RECURSIVE Location(_, _)
Location(t, i) ==
    IF i = 1 THEN 0 ELSE Location(t, i - 1) + Chars(t[i - 1]) + 1

\* len(text)
TextLen(t) ==
    IF Len(t) = 0 THEN 0 ELSE Location(t, Len(t)) + Chars(t[Len(t)])

\* RegexHandler.PATTERNS, in the order the dictionary is iterated.
PATTERNS == <<"email", "ssn">>

\* The substring of token k that the pattern matches, "" when it matches none.
Match(pattern, k) ==
    CASE pattern = "email" ->
           IF k \in {"a@b.co", "123-45-6789@b.co"} THEN k ELSE ""
      [] pattern = "ssn" ->
           IF k \in {"123-45-6789", "123-45-6789@b.co"}
           THEN "123-45-6789" ELSE ""

\* re.finditer(pattern, text): the matches of one pattern from left to
\* right, each as the SensitiveInfo the handler appends.
RECURSIVE FindIter(_, _, _)
FindIter(pattern, t, i) ==
    IF i > Len(t) THEN <<>>
    ELSE (IF Match(pattern, t[i]) = "" THEN <<>>
          ELSE <<[info_type |-> pattern,
                  value |-> Match(pattern, t[i]),
                  location |-> Location(t, i)]>>)
         \o FindIter(pattern, t, i + 1)

\* RegexHandler.process: for each pattern in turn, all of its matches.
RECURSIVE RegexHandlerProcess(_, _)
RegexHandlerProcess(t, p) ==
    IF p > Len(PATTERNS) THEN <<>>
    ELSE FindIter(PATTERNS[p], t, 1) \o RegexHandlerProcess(t, p + 1)

\* PDFTextProcessor.handlers
Handlers == <<"RegexHandler">>

\* The stats dictionary as process_text creates it.
BaseStats(t) ==
    [total_chars_processed |-> TextLen(t), handlers_used |-> Len(Handlers)]

\* findings_by_type: for each type met, the number of findings of the type.
FindingsByType(fs) ==
    [k \in {fs[i].info_type : i \in 1..Len(fs)} |->
        Cardinality({i \in 1..Len(fs) : fs[i].info_type = k})]

\* A result that keeps one finding per location: a detection overlapping an
\* earlier one is dropped from the findings, not from the statistics.
SuccessResultDropsOverlaps(t, fs) ==
    LET kept == SelectSeq([i \in 1..Len(fs) |-> <<i, fs[i]>>],
                          LAMBDA e : \A j \in 1..(e[1] - 1) :
                                        fs[j].location # e[2].location)
    IN [success |-> TRUE,
        findings |-> [i \in 1..Len(kept) |->
                        [type |-> kept[i][2].info_type,
                         value |-> kept[i][2].value,
                         location |-> kept[i][2].location]],
        statistics |-> [total_chars_processed |-> TextLen(t),
                        handlers_used |-> 1,
                        total_findings |-> Len(fs),
                        findings_by_type |-> <<>>]]

\* The dictionary returned when every handler has run.
SuccessResult(t, fs) ==
    [success |-> TRUE,
     findings |-> [i \in 1..Len(fs) |->
                     [type |-> fs[i].info_type, value |-> fs[i].value,
                      location |-> fs[i].location]],
     statistics |-> [total_chars_processed |-> BaseStats(t).total_chars_processed,
                     handlers_used |-> BaseStats(t).handlers_used,
                     total_findings |-> Len(fs),
                     findings_by_type |-> FindingsByType(fs)]]

\* The dictionary the except clause returns.
FailureResult(t, e) ==
    [success |-> FALSE, error |-> e, statistics |-> BaseStats(t)]

\* process_text is called with a text: all_findings and stats are created.
CallProcessText ==
    /\ tpc = "idle"
    /\ text' \in Texts
    /\ all_findings' = <<>>
    /\ handled' = 0
    /\ tpc' = "handlers"
    /\ UNCHANGED <<storeVars, bootVars, result>>

\* A process_text without its try/except: a handler's exception reaches the
\* caller.
RunHandlerUncaught ==
    /\ tpc = "handlers"
    /\ handled < Len(Handlers)
    /\ \/ /\ all_findings' = all_findings \o RegexHandlerProcess(text, 1)
          /\ handled' = handled + 1
          /\ UNCHANGED <<tpc, result>>
       \/ /\ result' = [raised |-> TRUE, value |-> <<>>]
          /\ tpc' = "done"
          /\ UNCHANGED <<all_findings, handled>>
    /\ UNCHANGED <<storeVars, bootVars, text>>

\* One turn of the loop over self.handlers: the handler returns its findings,
\* which extend all_findings, or it raises and the except clause returns.
RunHandler ==
    /\ tpc = "handlers"
    /\ handled < Len(Handlers)
    /\ \/ /\ all_findings' = all_findings \o RegexHandlerProcess(text, 1)
          /\ handled' = handled + 1
          /\ UNCHANGED <<tpc, result>>
       \/ /\ result' = [raised |-> FALSE,
                         value |-> FailureResult(text, "handler")]
          /\ tpc' = "done"
          /\ UNCHANGED <<all_findings, handled>>
    /\ UNCHANGED <<storeVars, bootVars, text>>

\* The loop is over: the statistics are completed and the result returned.
ReturnResult ==
    /\ tpc = "handlers"
    /\ handled = Len(Handlers)
    /\ result' = [raised |-> FALSE, value |-> SuccessResult(text, all_findings)]
    /\ tpc' = "done"
    /\ UNCHANGED <<storeVars, bootVars, text, all_findings, handled>>

NextText == CallProcessText \/ RunHandler \/ ReturnResult

SpecText == Init /\ [][NextText]_vars

\* --------------------------------------- from extraction to the store
\* The characters of a token.
TokenChars(k) ==
    CASE k = "hi" -> <<"h", "i">>
      [] k = "a@b.co" -> <<"a", "@", "b", ".", "c", "o">>
      [] k = "123-45-6789" ->
           <<"1", "2", "3", "-", "4", "5", "-", "6", "7", "8", "9">>
      [] k = "123-45-6789@b.co" ->
           <<"1", "2", "3", "-", "4", "5", "-", "6", "7", "8", "9",
             "@", "b", ".", "c", "o">>

\* The text as the string handed to store_document: its tokens, one space
\* between two of them.
RECURSIVE TextChars(_)
TextChars(t) ==
    IF Len(t) = 0 THEN <<>>
    ELSE IF Len(t) = 1 THEN TokenChars(t[1])
    ELSE TokenChars(t[1]) \o <<" ">> \o TextChars(Tail(t))

\* upload_pdf hands the dictionary process_text returned, with the text it
\* was computed from, to store_document under a new document id.
StoreResult(c) ==
    /\ pc[c] = "idle"
    /\ tpc = "done"
    /\ ~result.raised
    /\ args' = [args EXCEPT ![c] =
            [NoArgs EXCEPT !.document_id = "d1", !.filename = "a.pdf",
                           !.content = TextChars(text),
                           !.analysis_result = result.value,
                           !.timestamp = now]]
    /\ after' = [after EXCEPT ![c] = StoresReturned]
    /\ op' = [op EXCEPT ![c] = "store_document"]
    /\ pc' = [pc EXCEPT ![c] = "acquire"]
    /\ UNCHANGED <<textVars, bootVars, size, pool, nextConn, discarded, table,
                   now, held, existing, body, ret>>

\* One upload: a text is analysed and the result stored.
NextAnalyse ==
    \/ CallProcessText
    \/ RunHandler
    \/ ReturnResult
    \/ StoreResult(1)
    \/ Acquire(1)
    \/ Timeout(1)
    \/ StoreCheck(1)
    \/ StoreWrite(1)
    \/ Release(1)

SpecAnalyse == Init /\ [][NextAnalyse]_vars

\* -------------------------------------------------- application startup
\* ClickHouseClient.__init__ builds ConnectionPool(5, ...).
PoolSize == 5

\* main.py: init_db_client makes at most max_retries construction attempts.
max_retries == 3

\* The keys of the documents table as _ensure_table_exists declares them:
\* PRIMARY KEY (document_id) ORDER BY (upload_timestamp, document_id).
PrimaryKey == <<"document_id">>
SortingKey == <<"upload_timestamp", "document_id">>

\* A MergeTree table is created only if its primary key is a prefix of its
\* sorting key; otherwise the server rejects the CREATE ("Primary key must
\* be a prefix of the sorting key") and client.execute raises.
CreateAccepted ==
    /\ Len(PrimaryKey) <= Len(SortingKey)
    /\ \A i \in 1..Len(PrimaryKey) : PrimaryKey[i] = SortingKey[i]

\* The client object a successful construction leaves: its pool, after the
\* constructor's with-block has released the connection it borrowed.
NewClient(probeOk, constructOk) ==
    <<"client", AfterRelease(Tail(FillPool(PoolSize)), PoolSize + 1, {},
                             Head(FillPool(PoolSize)), probeOk, constructOk)>>

\* Before any application process has started: no client, no pool, and a
\* database in which the documents table exists or does not exist yet.
InitBoot ==
    /\ size = PoolSize
    /\ pool = <<>>
    /\ nextConn = 1
    /\ discarded = {}
    /\ table = EmptyBag
    /\ now = 0
    /\ InitCallers
    /\ InitProcessor
    /\ tables \in {{}, {"documents"}}
    /\ InitApps

\* startup: the handler calls init_db_client, whose loop starts at attempt 0.
Startup(a) ==
    /\ bpc[a] = "idle"
    /\ attempt' = [attempt EXCEPT ![a] = 0]
    /\ bpc' = [bpc EXCEPT ![a] = "construct"]
    /\ UNCHANGED <<storeVars, textVars, tables, found, pending, db_client>>

\* ClickHouseClient.__init__: the pool is built and filled, a connection is
\* borrowed and _test_connection runs SELECT 1 on it.
Construct(a) ==
    /\ bpc[a] = "construct"
    /\ \E ok \in BOOLEAN :
         IF ok
         THEN /\ bpc' = [bpc EXCEPT ![a] = "check"]
              /\ pending' = [pending EXCEPT ![a] = "none"]
         ELSE /\ bpc' = [bpc EXCEPT ![a] = "leave"]
              /\ pending' = [pending EXCEPT ![a] = "test"]
    /\ UNCHANGED <<storeVars, textVars, tables, attempt, found, db_client>>

\* _ensure_table_exists: SELECT name FROM system.tables WHERE name =
\* 'documents'; a raising query is logged and raised again.
CheckTable(a) ==
    /\ bpc[a] = "check"
    /\ \E ok \in BOOLEAN :
         IF ok
         THEN /\ found' = [found EXCEPT ![a] = "documents" \in tables]
              /\ bpc' = [bpc EXCEPT ![a] =
                     IF "documents" \in tables THEN "leave" ELSE "create"]
              /\ pending' = pending
         ELSE /\ found' = found
              /\ bpc' = [bpc EXCEPT ![a] = "leave"]
              /\ pending' = [pending EXCEPT ![a] = "check"]
    /\ UNCHANGED <<storeVars, textVars, tables, attempt, db_client>>

\* _ensure_table_exists, the check having found nothing: CREATE TABLE IF NOT
\* EXISTS documents ...  The statement does nothing when the table has been
\* created meanwhile; it raises when the connection fails or the server
\* rejects the table definition, and the exception is logged and raised again.
CreateTable(a) ==
    /\ bpc[a] = "create"
    /\ \E ok \in BOOLEAN :
         IF ok /\ ("documents" \in tables \/ CreateAccepted)
         THEN /\ tables' = tables \cup {"documents"}
              /\ pending' = pending
         ELSE /\ tables' = tables
              /\ pending' = [pending EXCEPT ![a] =
                     IF ok THEN "create_rejected" ELSE "create"]
    /\ bpc' = [bpc EXCEPT ![a] = "leave"]
    /\ UNCHANGED <<storeVars, textVars, attempt, found, db_client>>

\* The constructor's with-block is left: get_connection's finally block runs;
\* then either __init__ returns, init_db_client assigns db_client and
\* returns, and startup completes, or __init__ logs the exception and raises
\* it again to init_db_client.
LeaveConstructor(a) ==
    /\ bpc[a] = "leave"
    /\ IF pending[a] = "none"
       THEN /\ \E probeOk \in BOOLEAN, constructOk \in BOOLEAN :
                 db_client' = [db_client EXCEPT ![a] =
                                 NewClient(probeOk, constructOk)]
            /\ bpc' = [bpc EXCEPT ![a] = "serving"]
       ELSE /\ db_client' = db_client
            /\ bpc' = [bpc EXCEPT ![a] = "failed"]
    /\ found' = [found EXCEPT ![a] = FALSE]
    /\ UNCHANGED <<storeVars, textVars, tables, attempt, pending>>

\* An init_db_client that raises the last attempt's exception to startup.
RetryOrRaise(a) ==
    /\ bpc[a] = "failed"
    /\ IF attempt[a] < max_retries - 1
       THEN /\ attempt' = [attempt EXCEPT ![a] = @ + 1]
            /\ bpc' = [bpc EXCEPT ![a] = "construct"]
            /\ pending' = [pending EXCEPT ![a] = "none"]
       ELSE /\ attempt' = attempt
            /\ bpc' = [bpc EXCEPT ![a] = "halted"]
            /\ pending' = pending
    /\ UNCHANGED <<storeVars, textVars, tables, found, db_client>>

\* init_db_client's except clause: the failure is logged; before the last
\* attempt the loop sleeps and goes on, after it the function returns and
\* startup completes with db_client as it was.
Retry(a) ==
    /\ bpc[a] = "failed"
    /\ IF attempt[a] < max_retries - 1
       THEN /\ attempt' = [attempt EXCEPT ![a] = @ + 1]
            /\ bpc' = [bpc EXCEPT ![a] = "construct"]
            /\ pending' = [pending EXCEPT ![a] = "none"]
       ELSE /\ attempt' = attempt
            /\ bpc' = [bpc EXCEPT ![a] = "serving"]
            /\ pending' = pending
    /\ UNCHANGED <<storeVars, textVars, tables, found, db_client>>

NextBoot ==
    \E a \in Apps :
        \/ Startup(a)
        \/ Construct(a)
        \/ CheckTable(a)
        \/ CreateTable(a)
        \/ LeaveConstructor(a)
        \/ Retry(a)

SpecBoot == InitBoot /\ [][NextBoot]_vars

\* Every started handler runs on: no process stops in the middle of startup.
SpecBootFair == InitBoot /\ [][NextBoot]_vars /\ WF_vars(NextBoot)

\* ------------------------------------------------------ request handlers
\* The application process whose handlers are modelled, and the requests it
\* serves. The handlers are coroutines of one event loop: a handler runs
\* without interruption up to its next await, the blocking calls of the
\* Storage Client included.
Server == 1
Requests == {1, 2}

\* The parameters of ClickHouseClient._test_connection, and the arguments
\* health_check's call `db_client._test_connection()` binds to them.
TestConnectionParams == <<"self", "client">>
HealthCheckTestArgs == <<"self">>

\* A call that does not supply every required positional parameter raises
\* TypeError before the function body runs.
RaisesTypeError(params, callArgs) == Len(callArgs) # Len(params)

\* An identifier generator that hands out the same value every time.
Uuid4Repeats(c) == "u1"

\* str(uuid.uuid4()): an identifier that no other request has been given.
Uuid4(c) == <<"u1", "u2", "u3", "u4">>[c]

\* What a handler answers: JSONResponse, or the response FastAPI builds from
\* an HTTPException; err names the exception behind an error response.
Response(code, status, id, database, e) ==
    [raised |-> FALSE,
     val |-> <<"response", [status_code |-> code, status |-> status,
                            document_id |-> id, database |-> database]>>,
     err |-> e]

\* The global db_client after a call of init_db_client() that found it g:
\* a new client if one of the attempts succeeded (the documents table must
\* exist or be creatable), else g as it was.
InitDbClient(g) ==
    {g} \cup (IF "documents" \in tables \/ CreateAccepted
              THEN {NewClient(probeOk, constructOk) :
                        probeOk \in BOOLEAN, constructOk \in BOOLEAN}
              ELSE {})

\* The client whose operation has run one with-block to its end: the head of
\* its pool was borrowed and released through get_connection's finally block.
Borrowed(g, probeOk, constructOk) ==
    <<"client", AfterRelease(Tail(g[2].pool), g[2].nextConn, g[2].discarded,
                             Head(g[2].pool), probeOk, constructOk)>>

\* The module globals once startup has returned, with or without a client,
\* and an empty documents table.
InitApi ==
    /\ size = PoolSize
    /\ pool = <<>>
    /\ nextConn = 1
    /\ discarded = {}
    /\ table = EmptyBag
    /\ now = 0
    /\ InitCallers
    /\ InitProcessor
    /\ tables = {"documents"}
    /\ bpc = [a \in Apps |-> "serving"]
    /\ attempt = [a \in Apps |-> 0]
    /\ found = [a \in Apps |-> FALSE]
    /\ pending = [a \in Apps |-> "none"]
    /\ \E g \in InitDbClient(PyNone) :
         db_client = [a \in Apps |-> IF a = Server THEN g ELSE PyNone]

\* health_check: reconnect if there is no client, then test the client; an
\* exception of the test resets the global db_client to None. The handler
\* has no await.
HealthCheck(c) ==
    /\ pc[c] = "idle"
    /\ op' = [op EXCEPT ![c] = "health_check"]
    /\ \E g \in (IF db_client[Server] = PyNone THEN InitDbClient(PyNone)
                  ELSE {db_client[Server]}) :
         IF g = PyNone
         THEN /\ db_client' = db_client
              /\ ret' = [ret EXCEPT ![c] =
                          Response(207, "degraded", "", "disconnected", "none")]
         ELSE IF RaisesTypeError(TestConnectionParams, HealthCheckTestArgs)
         THEN /\ db_client' = [db_client EXCEPT ![Server] = PyNone]
              /\ ret' = [ret EXCEPT ![c] =
                          Response(207, "degraded", "", "error", "TypeError")]
         ELSE \E ok \in BOOLEAN :
                IF ok
                THEN /\ db_client' = [db_client EXCEPT ![Server] = g]
                     /\ ret' = [ret EXCEPT ![c] =
                            Response(200, "healthy", "", "connected", "none")]
                ELSE /\ db_client' = [db_client EXCEPT ![Server] = PyNone]
                     /\ ret' = [ret EXCEPT ![c] =
                            Response(207, "degraded", "", "error", "query")]
    /\ pc' = [pc EXCEPT ![c] = "done"]
    /\ UNCHANGED <<textVars, size, pool, nextConn, discarded, table, now,
                   args, held, existing, body, after,
                   tables, bpc, attempt, found, pending>>

\* upload_pdf up to `await file.read()`: the availability check (with a
\* reconnect if there is no client), the lookup by filename, the answer
\* "exists" if it found a record, else a new document id.
UploadBegin(c) ==
    /\ pc[c] = "idle"
    /\ op' = [op EXCEPT ![c] = "upload_pdf"]
    /\ \E f \in Filenames :
       \E g \in (IF db_client[Server] = PyNone THEN InitDbClient(PyNone)
                  ELSE {db_client[Server]}) :
         IF g = PyNone
         THEN /\ db_client' = db_client
              /\ ret' = [ret EXCEPT ![c] =
                          Response(503, "error", "", "", "unavailable")]
              /\ pc' = [pc EXCEPT ![c] = "done"]
              /\ args' = [args EXCEPT ![c] = [NoArgs EXCEPT !.filename = f]]
         ELSE \E probeOk \in BOOLEAN, constructOk \in BOOLEAN :
              \E existing_doc \in
                    (IF g[2].pool = <<>> THEN {}
                     ELSE GetByFilenameResults(f)) \cup {PyNone} :
                /\ db_client' = [db_client EXCEPT ![Server] =
                        IF g[2].pool = <<>> THEN g
                        ELSE Borrowed(g, probeOk, constructOk)]
                /\ IF existing_doc # PyNone
                   THEN /\ ret' = [ret EXCEPT ![c] =
                              Response(200, "exists",
                                       existing_doc[2].document_id, "", "none")]
                        /\ pc' = [pc EXCEPT ![c] = "done"]
                        /\ args' = [args EXCEPT ![c] =
                              [NoArgs EXCEPT !.filename = f]]
                   ELSE /\ ret' = ret
                        /\ pc' = [pc EXCEPT ![c] = "await"]
                        /\ args' = [args EXCEPT ![c] =
                              [NoArgs EXCEPT !.filename = f,
                                             !.document_id = Uuid4(c)]]
    /\ UNCHANGED <<textVars, size, pool, nextConn, discarded, table, now,
                   held, existing, body, after,
                   tables, bpc, attempt, found, pending>>

\* upload_pdf from `await file.read()` on: the text is extracted and
\* analysed, then `db_client.store_document(...)` is called on whatever the
\* global db_client is by now. An AttributeError is caught by the handler's
\* `except Exception` and answered with HTTP 500, as is a False result.
UploadResume(c) ==
    /\ pc[c] = "await"
    /\ \E x \in {<<"x">>}, a \in Analyses :
       LET g == db_client[Server]
           data == [args[c] EXCEPT !.content = x, !.analysis_result = a,
                                   !.timestamp = now]
           failed == Response(500, "error", "", "", "store_failed")
       IN /\ args' = [args EXCEPT ![c] = data]
          /\ IF g = PyNone
             THEN /\ ret' = [ret EXCEPT ![c] =
                         Response(500, "error", "", "", "AttributeError")]
                  /\ UNCHANGED <<db_client, table, existing>>
             ELSE IF g[2].pool = <<>>
             THEN /\ ret' = [ret EXCEPT ![c] = failed]
                  /\ UNCHANGED <<db_client, table, existing>>
             ELSE \E probeOk \in BOOLEAN, constructOk \in BOOLEAN :
                  \E checkOk \in BOOLEAN, writeOk \in BOOLEAN :
                    /\ db_client' = [db_client EXCEPT ![Server] =
                            Borrowed(g, probeOk, constructOk)]
                    /\ existing' = [existing EXCEPT ![c] =
                            IF checkOk THEN CountById(data.document_id) ELSE @]
                    /\ IF checkOk /\ writeOk
                          /\ CountById(data.document_id) = 0
                       THEN /\ table' = InsertRow(DataRow(data, data.timestamp))
                            /\ ret' = [ret EXCEPT ![c] =
                                  Response(200, "success", data.document_id,
                                           "", "none")]
                       ELSE IF checkOk /\ writeOk /\ UpdateAccepted
                       THEN /\ table' = UpdateRows(DataRow(data, now))
                            /\ ret' = [ret EXCEPT ![c] =
                                  Response(200, "success", data.document_id,
                                           "", "none")]
                       ELSE /\ table' = table
                            /\ ret' = [ret EXCEPT ![c] = failed]
    /\ pc' = [pc EXCEPT ![c] = "done"]
    /\ UNCHANGED <<textVars, size, pool, nextConn, discarded, now,
                   op, held, body, after,
                   tables, bpc, attempt, found, pending>>

\* Requests arrive at any time; each is an upload or a health check.
NextApi ==
    \/ Tick
    \/ \E c \in Requests :
         \/ HealthCheck(c)
         \/ UploadBegin(c)
         \/ UploadResume(c)

SpecApi == InitApi /\ [][NextApi]_vars

\* ------------------------------------------------------------------ claims
StoreCallers(id) ==
    {c \in Callers : /\ op[c] = "store_document"
                     /\ pc[c] # "idle"
                     /\ args[c].document_id = id}

\* The step in which caller c leaves get_connection and its operation returns.
Returns(c) == pc[c] = "release" /\ pc'[c] = "done"

\* C1: in every reachable state the number of connections lent to callers
\* inside a with-body is at most the pool size N, with more callers than N.
C1_LentAtMostPoolSize == LentCount <= size

\* Every connection of the pool is lent while another caller waits in pool.get.
C1_Witness ==
    /\ LentCount = size
    /\ \E c \in Callers : pc[c] = "acquire"

\* C2 as stated: at most one record per document_id in every reachable state,
\* also when two store_document calls interleave their check and write.
C2_AtMostOneRecordPerId == \A id \in DocIds : CountById(id) <= 1

\* No two store_document calls for id overlap: of any two, one was called
\* after the other had returned.
Sequential(id) ==
    \A c \in StoreCallers(id) : \A d \in StoreCallers(id) :
        c # d => (c \in after[d] \/ d \in after[c])

\* C2 amended: at most one record per document_id exists as long as the
\* store_document calls for that id do not overlap.
C2_SequentialStoresKeepOneRecord ==
    \A id \in DocIds : Sequential(id) => CountById(id) <= 1

\* Two stores of one id, the second called after the first returned True,
\* have both returned and one record exists.
C2_Witness ==
    \E c \in Callers : \E d \in Callers :
        /\ c # d
        /\ pc[c] = "done" /\ pc[d] = "done"
        /\ op[c] = "store_document" /\ op[d] = "store_document"
        /\ args[c].document_id = args[d].document_id
        /\ c \in after[d]
        /\ ret[c].val = PyBool(TRUE)
        /\ CountById(args[c].document_id) = 1

\* C3: a connection whose release-time probe failed is never in the queue
\* again and never lent again; a connection that enters the queue is the one
\* just released with a good probe or one constructed in that step.
C3_BrokenNeverRelent ==
    [][/\ discarded' \cap (Range(pool') \cup Lent') = {}
       /\ \A k \in Range(pool') \ Range(pool) :
            \/ k \in Lent /\ k \notin discarded'
            \/ k = nextConn /\ nextConn' = nextConn + 1
                 /\ k \notin (Range(pool) \cup Lent \cup discarded)]_vars

\* A caller holds a connection constructed as a replacement.
C3_Witness ==
    /\ discarded # {}
    /\ \E c \in Callers : \E k \in held[c] : k > size

\* A step whose probe failed and whose replacement was constructed.
Replaces == discarded' # discarded /\ nextConn' # nextConn

\* A step whose probe failed and whose replacement could not be constructed.
Drops == discarded' # discarded /\ nextConn' = nextConn

\* C4: when the probe fails and the replacement is constructed, exactly one
\* new connection is enqueued and the pool owns as many connections as
\* before; lending a connection does not change that number either.
C4_ReplacementKeepsPoolSize ==
    [][/\ Replaces => (pool' = Append(pool, nextConn) /\ Owned' = Owned)
       /\ (\E c \in Callers : pc[c] = "acquire" /\ held'[c] # held[c])
            => Owned' = Owned]_vars

\* Two replacements have been made (at most one by the constructor) and the
\* pool still owns N connections.
C4_Witness == nextConn >= size + 3 /\ Owned = size

\* C5 as stated: when an operation returns, the connection it borrowed has
\* been put back in the pool or replaced, and the caller holds none.
C5_ReturnedOrReplaced ==
    [][\A c \in Callers : Returns(c) =>
         /\ held'[c] = {}
         /\ \A k \in held[c] :
              \/ k \in Range(pool')
              \/ k \in discarded' /\ pool' = Append(pool, nextConn)]_vars

\* C5 amended: when an operation returns, the connection it borrowed has been
\* put back, replaced, or (the replacement's construction having failed)
\* dropped without replacement; no caller holds a connection outside a
\* with-body.
C5_ReleasedOnEveryExit ==
    [][\A c \in Callers :
         /\ pc'[c] \in {"idle", "acquire", "done"} => held'[c] = {}
         /\ Returns(c) =>
              \A k \in held[c] :
                 \/ k \in Range(pool')
                 \/ k \in discarded' /\ pool' = Append(pool, nextConn)
                 \/ k \in discarded' /\ pool' = pool]_vars

\* One caller's get_document has left its with-body by the early return of
\* None and another's get_statistics by an exception of its query; both have
\* returned and hold no connection.
C5_Witness ==
    \E c \in Callers : \E d \in Callers :
        /\ pc[c] = "done" /\ op[c] = "get_document"
        /\ ret[c].val = PyNone /\ ret[c].err = "none"
        /\ pc[d] = "done" /\ op[d] = "get_statistics"
        /\ ret[d].err = "query"
        /\ held[c] = {} /\ held[d] = {}

\* C6: no connection is lent to two callers at once and no caller holds more
\* than one connection.
C6_NoSharedConnection ==
    /\ \A c \in Callers : Cardinality(held[c]) <= 1
    /\ \A c \in Callers : \A d \in Callers :
         c # d => held[c] \cap held[d] = {}

\* Two callers are inside their with-bodies, each with its own connection.
C6_Witness ==
    \E c \in Callers : \E d \in Callers :
        c # d /\ held[c] # {} /\ held[d] # {}

\* C7: an acquire that times out hands out no connection, probes and
\* replaces nothing, and leaves the queue and the lent connections unchanged;
\* it fails with queue.Empty.
C7_TimeoutLeavesPoolUnchanged ==
    [][\A c \in Callers : (pc[c] = "acquire" /\ pc'[c] = "done") =>
         /\ pool = <<>>
         /\ pool' = pool
         /\ held' = held
         /\ nextConn' = nextConn
         /\ discarded' = discarded
         /\ ret'[c].err = "Empty"]_vars

\* A caller's acquire has timed out while the connections are lent.
C7_Witness ==
    \E c \in Callers :
        /\ pc[c] = "done"
        /\ ret[c].err = "Empty"
        /\ LentCount = size

\* C8: when the replacement cannot be constructed, the operation returns
\* what its with-body produced (its value, or the degraded value of an
\* exception raised in the body), nothing is raised, and the pool owns one
\* connection fewer.
C8_FailedReplacementSwallowed ==
    [][\A c \in Callers : (Returns(c) /\ Drops) =>
         /\ ret'[c].raised = FALSE
         /\ ret'[c].val = (IF body[c].kind = "return" THEN body[c].val
                           ELSE Degraded(op[c]))
         /\ ret'[c].err = body[c].exc
         /\ pool' = pool
         /\ Owned' = Owned - 1]_vars

\* Only one caller has run; its store_document returned True although every
\* connection has been dropped and none constructed.
C8_Witness ==
    \E c \in Callers :
        /\ pc[c] = "done"
        /\ op[c] = "store_document"
        /\ ret[c].val = PyBool(TRUE)
        /\ \A d \in Callers : d # c => pc[d] = "idle"
        /\ Cardinality(discarded) = size
        /\ nextConn = size + 1

\* C9: an operation that met an exhausted pool or a failing query has
\* returned its degraded value (False, None, None, {}, []) and has raised
\* nothing to its caller.
C9_DegradedNeverRaises ==
    \A c \in Callers : pc[c] = "done" =>
        /\ ret[c].raised = FALSE
        /\ ret[c].err # "none" =>
             CASE op[c] = "store_document" -> ret[c].val = PyBool(FALSE)
               [] op[c] = "get_document" -> ret[c].val = PyNone
               [] op[c] = "get_document_by_filename" -> ret[c].val = PyNone
               [] op[c] = "get_statistics" -> ret[c].val = PyDict(<<>>)
               [] op[c] = "get_all_documents" -> ret[c].val = PyList(<<>>)

\* One caller's get_all_documents met an exhausted pool and another's
\* get_statistics a failing query.
C9_Witness ==
    \E c \in Callers : \E d \in Callers :
        /\ pc[c] = "done" /\ op[c] = "get_all_documents" /\ ret[c].err = "Empty"
        /\ pc[d] = "done" /\ op[d] = "get_statistics" /\ ret[d].err = "query"

\* C10: after two stores of one document_id with different content, the
\* second called after the first returned True and meeting neither an
\* exhausted pool nor a failing connection, get_document finds exactly one
\* record, with the second call's content, its length, and a timestamp not
\* older than the second call.
C10_SecondStoreWins ==
    \A c \in Callers : \A d \in Callers :
        ( /\ c # d
          /\ pc[c] = "done" /\ pc[d] = "done"
          /\ op[c] = "store_document" /\ op[d] = "store_document"
          /\ args[c].document_id = args[d].document_id
          /\ args[c].content # args[d].content
          /\ ret[c].val = PyBool(TRUE)
          /\ c \in after[d]
          /\ ret[d].err \notin {"Empty", "query"} )
        => /\ CountById(args[d].document_id) = 1
           /\ \A v \in GetDocumentResults(args[d].document_id) :
                /\ v[1] = "dict"
                /\ v[2].content = args[d].content
                /\ v[2].content_length = Len(args[d].content)
                /\ v[2].upload_timestamp[2] >= args[d].timestamp

\* The stored records whose filename is f.
WithFilename(f) == {r \in BagToSet(table) : r.filename = f}

\* C11: a get_document_by_filename whose query succeeded returned None
\* when no record has the filename, and otherwise the dictionary of a record
\* with that filename whose upload_timestamp is the greatest among them.
C11_LatestByFilename ==
    \A c \in Callers :
        (pc[c] = "done" /\ op[c] = "get_document_by_filename"
           /\ ret[c].err = "none")
        => IF WithFilename(args[c].filename) = {}
           THEN ret[c].val = PyNone
           ELSE \E r \in WithFilename(args[c].filename) :
                  /\ ret[c].val = PyDict(DocDict(r))
                  /\ \A q \in WithFilename(args[c].filename) :
                       q.upload_timestamp <= r.upload_timestamp

\* Records of one filename stored at different instants, and a lookup of
\* that filename that has returned a record.
C11_Witness ==
    \E c \in Callers :
        /\ pc[c] = "done" /\ op[c] = "get_document_by_filename"
        /\ ret[c].err = "none" /\ ret[c].val # PyNone
        /\ \E r \in WithFilename(args[c].filename) :
             \E q \in WithFilename(args[c].filename) :
                r.upload_timestamp < q.upload_timestamp

\* The document ids on a page returned by get_all_documents.
PageIds(v) == {v[2][i].document_id : i \in 1..Len(v[2])}

\* A returned listing is in descending upload_timestamp order.
Descending(l) ==
    \A i \in 1..Len(l) : \A j \in 1..Len(l) :
        i < j => l[i].upload_timestamp[2] >= l[j].upload_timestamp[2]

\* C12: over 4 stored documents, get_all_documents(2, 0) followed by
\* get_all_documents(2, 2), both served, return two pages of two documents
\* that share no document and miss none, each page and their concatenation
\* in descending upload_timestamp order, whatever the timestamps, equal ones
\* included.
C12_PagesPartition ==
    ( /\ BagCardinality(table) = 4
      /\ pc[1] = "done" /\ op[1] = "get_all_documents"
      /\ args[1].limit = 2 /\ args[1].offset = 0 /\ ret[1].err = "none"
      /\ pc[2] = "done" /\ op[2] = "get_all_documents"
      /\ args[2].limit = 2 /\ args[2].offset = 2 /\ ret[2].err = "none" )
    => /\ Len(ret[1].val[2]) = 2 /\ Len(ret[2].val[2]) = 2
       /\ PageIds(ret[1].val) \cap PageIds(ret[2].val) = {}
       /\ PageIds(ret[1].val) \cup PageIds(ret[2].val)
            = {r.document_id : r \in BagToSet(table)}
       /\ Descending(ret[1].val[2])
       /\ Descending(ret[2].val[2])
       /\ Descending(ret[1].val[2] \o ret[2].val[2])

\* C13: a get_statistics served over an empty documents table returned a
\* dictionary whose six fields are all present and zero (the average being
\* the number 0, not NaN), and neither None nor an error.
C13_EmptyStatisticsZero ==
    \A c \in Callers :
        (pc[c] = "done" /\ op[c] = "get_statistics" /\ ret[c].err = "none"
           /\ table = EmptyBag)
        => /\ ret[c].raised = FALSE
           /\ ret[c].val[1] = "dict"
           /\ DOMAIN ret[c].val[2] =
                {"total_documents", "total_sensitive_info", "total_emails",
                 "total_ssns", "avg_sensitive_per_doc", "max_sensitive_in_doc"}
           /\ ret[c].val[2].total_documents = 0
           /\ ret[c].val[2].total_sensitive_info = 0
           /\ ret[c].val[2].total_emails = 0
           /\ ret[c].val[2].total_ssns = 0
           /\ ret[c].val[2].max_sensitive_in_doc = 0
           /\ ret[c].val[2].avg_sensitive_per_doc.nan = FALSE
           /\ ret[c].val[2].avg_sensitive_per_doc.num = 0

\* C14: process_text never raises; when a handler raised, the result has
\* success = False and a statistics block with total_chars_processed =
\* len(text) and handlers_used = the number of configured handlers.
C14_ProcessTextNeverRaises ==
    tpc = "done" =>
        /\ result.raised = FALSE
        /\ handled < Len(Handlers) => result.value.success = FALSE
        /\ result.value.success = FALSE =>
             /\ result.value.statistics.total_chars_processed = TextLen(text)
             /\ result.value.statistics.handlers_used = Len(Handlers)

\* The handler raised on a text of three tokens (a word, an e-mail address
\* and an SSN) and process_text has returned.
C14_Witness ==
    /\ tpc = "done"
    /\ handled < Len(Handlers)
    /\ result.value.success = FALSE
    /\ text = <<"hi", "a@b.co", "123-45-6789">>

\* The number of findings of type k in a returned findings list.
CountType(fs, k) == Cardinality({i \in 1..Len(fs) : fs[i].type = k})

\* What C15 states of a result r for text t.
FindingsConsistent(r, t) ==
    /\ "findings" \in DOMAIN r
    /\ "total_findings" \in DOMAIN r.statistics
    /\ "findings_by_type" \in DOMAIN r.statistics
    /\ r.statistics.total_findings = Len(r.findings)
    /\ \A k \in Range(PATTERNS) :
         CountType(r.findings, k) =
            Get(r.statistics.findings_by_type, k, 0)
    /\ \A k \in DOMAIN r.statistics.findings_by_type :
         r.statistics.findings_by_type[k] = CountType(r.findings, k)
    /\ Len(r.findings) = Len(RegexHandlerProcess(t, 1))
    /\ \A i \in 1..Len(r.findings) :
         /\ r.findings[i].type = RegexHandlerProcess(t, 1)[i].info_type
         /\ r.findings[i].value = RegexHandlerProcess(t, 1)[i].value
         /\ r.findings[i].location = RegexHandlerProcess(t, 1)[i].location

C16_FindingsLeftToRight ==
    handled >= 1 =>
        \A i \in 1..Len(all_findings) : \A j \in 1..Len(all_findings) :
            i < j => all_findings[i].location <= all_findings[j].location

\* C17 as stated: _ensure_table_exists issues its CREATE only when the check
\* found no documents table, and a call whose connection works, made any
\* number of times or by two clients at once, meets no rejection and leaves
\* the documents table in place.
C17_EnsureTableIdempotent ==
    \A a \in Apps :
        /\ bpc[a] = "create" => ~found[a]
        /\ pending[a] # "create_rejected"
        /\ (bpc[a] = "leave" /\ pending[a] = "none") => "documents" \in tables

\* C18 as stated: once the schema bootstrap has failed (the check or the
\* CREATE raised), startup halts: the process does not go on to serve
\* without a client.
C18_BootstrapFailureHaltsStartup ==
    \A a \in Apps :
        (bpc[a] = "serving" /\ db_client[a] = PyNone)
        => pending[a] \notin {"check", "create", "create_rejected"}

\* The steps a store_document call takes, as pairs of positions.
StoreEdges ==
    {<<"idle", "acquire">>, <<"acquire", "check">>, <<"acquire", "done">>,
     <<"check", "write">>, <<"check", "release">>, <<"write", "release">>,
     <<"release", "done">>}

\* C19: a store_document call acquires one connection once, keeps it for the
\* check and the write, issues one write statement (an UPDATE, which adds no
\* record, when the check counted a record; an INSERT of one record when it
\* counted none), and after a failure goes on to return: no step is taken
\* twice.
C19_OneAcquireOneWrite ==
    [][\A c \in Callers : op'[c] = "store_document" =>
         /\ pc'[c] # pc[c] => <<pc[c], pc'[c]>> \in StoreEdges
         /\ held'[c] # held[c] =>
              \/ pc[c] = "acquire" /\ held[c] = {}
                   /\ Cardinality(held'[c]) = 1
              \/ pc[c] = "release" /\ held'[c] = {}
         /\ pc[c] \in {"check", "write", "release"} =>
              Cardinality(held[c]) = 1
         /\ (pc[c] = "write" /\ pc'[c] = "release") =>
              IF existing[c] > 0
              THEN /\ BagCardinality(table') = BagCardinality(table)
                   /\ table' \in {table, UpdateRows(DataRow(args[c], now))}
              ELSE /\ table' \in
                        {table,
                         InsertRow(DataRow(args[c], args[c].timestamp))}
                   /\ body'[c].exc # "update_key_column"
         /\ (\A d \in Callers : ~(pc[d] = "write" /\ pc'[d] = "release"))
              => table' = table]_vars

\* One store has inserted its record and returned True, and a later store
\* of the same id has issued its UPDATE, seen it rejected, and returned.
C19_Witness ==
    \E c \in Callers : \E d \in Callers :
        /\ pc[c] = "done" /\ pc[d] = "done"
        /\ op[c] = "store_document" /\ op[d] = "store_document"
        /\ c \in after[d]
        /\ ret[c].val = PyBool(TRUE)
        /\ ret[d].err = "update_key_column"

\* C20: init_db_client makes at most max_retries attempts; a successful
\* attempt ends it with db_client set, a failed one is followed by the next
\* attempt, and after the last failed attempt it returns, raising nothing,
\* with db_client as it was; and it always does end.
C20_InitTerminates ==
    /\ [][\A a \in Apps :
            /\ attempt'[a] < max_retries
            /\ bpc'[a] # "halted"
            /\ (bpc[a] = "leave" /\ bpc'[a] # "leave" /\ pending[a] = "none")
                 => (bpc'[a] = "serving" /\ db_client'[a] # PyNone)
            /\ (bpc[a] = "failed" /\ bpc'[a] # "failed") =>
                 IF attempt[a] < max_retries - 1
                 THEN bpc'[a] = "construct" /\ attempt'[a] = attempt[a] + 1
                 ELSE /\ bpc'[a] = "serving"
                      /\ db_client'[a] = db_client[a]
                      /\ db_client'[a] = PyNone
            /\ (bpc'[a] = "construct") =>
                 (bpc[a] \in {"idle", "failed", "construct"})]_vars
    /\ <>(\A a \in Apps : bpc[a] = "serving")

\* One process has its client from the second attempt, and another has
\* returned from init_db_client without a client after three failed ones.
C20_Witness ==
    \E a \in Apps : \E b \in Apps :
        /\ bpc[a] = "serving" /\ db_client[a] # PyNone /\ attempt[a] = 1
        /\ bpc[b] = "serving" /\ db_client[b] = PyNone
        /\ attempt[b] = max_retries - 1

\* Releases so far whose probe failed and whose replacement could not be
\* constructed: every failed probe is recorded, every construction numbered.
DropCount == Cardinality(discarded) - (nextConn - (size + 1))

\* C21: the pool never owns more than N connections (idle plus lent) and the
\* number never grows: it is N less the releases whose probe and replacement
\* both failed, each such release lowers it by one for good, and once N of
\* them have happened every acquire that ends, ends in a timeout.
C21_SlotsNeverRecover ==
    [][/\ Owned <= size
       /\ Owned = size - DropCount
       /\ Owned' <= Owned
       /\ Drops => Owned' = Owned - 1
       /\ DropCount = size =>
            \A c \in Callers : (pc[c] = "acquire" /\ pc'[c] # "acquire") =>
                /\ pc'[c] = "done"
                /\ ret'[c].err = "Empty"
                /\ held'[c] = {}]_vars

\* In a pool of two, both connections have been dropped without replacement
\* (one by a caller's release) and a later acquire has timed out.
C21_Witness ==
    /\ size = MaxPoolSize
    /\ DropCount = size
    /\ Owned = 0
    /\ \E c \in Callers : \E d \in Callers :
         /\ pc[c] = "done" /\ ret[c].err # "Empty"
         /\ pc[d] = "done" /\ ret[d].err = "Empty"

\* C22: whenever a caller is about to leave its with-block, the queue holds
\* fewer than N connections, so the put of get_connection's finally block
\* (of the connection or of its replacement) does not wait and the release
\* can complete, whatever the other callers have done.
C22_ReleaseNeverBlocks ==
    \A c \in Callers :
        /\ held[c] # {} => Len(pool) < size
        /\ pc[c] = "release" =>
             /\ held[c] # {}
             /\ \A probeOk \in BOOLEAN, constructOk \in BOOLEAN :
                  ~PutBlocks(probeOk, constructOk)
             /\ ENABLED Release(c)

\* Both callers have left their with-blocks in a pool of two and the queue
\* is full again: the second release put into a queue holding N - 1.
C22_Witness ==
    /\ size = MaxPoolSize
    /\ Len(pool) = size
    /\ \A c \in Callers : pc[c] = "done" /\ ret[c].err # "Empty"

\* C23: with every thread scheduled fairly, a caller waiting in pool.get
\* eventually holds a connection or has timed out with queue.Empty; and as
\* long as no replacement construction fails, the pool keeps its N
\* connections and an empty queue always becomes non-empty again, so that
\* no state is reached from which no acquire can succeed.
C23_AcquireEventuallyServed ==
    /\ \A c \in Callers :
         (pc[c] = "acquire") ~>
            (held[c] # {} \/ (pc[c] = "done" /\ ret[c].err = "Empty"))
    /\ [](DropCount = 0) => [](Owned = size)
    /\ [](DropCount = 0) => ((pool = <<>>) ~> (pool # <<>>))

\* In a pool of one whose constructions all succeeded, a caller that called
\* its store_document before the other caller's had returned holds the
\* connection, after the other put it back or replaced it.
C23_Witness ==
    /\ size = 1
    /\ DropCount = 0
    /\ \E c \in Callers : \E d \in Callers :
         /\ c # d
         /\ op[c] = "store_document" /\ op[d] = "store_document"
         /\ pc[d] = "done" /\ ret[d].err # "Empty"
         /\ d \notin after[c]
         /\ held[c] # {}

\* C24: every stored record has sensitive_info_count, email_count and
\* ssn_count equal to statistics.total_findings, findings_by_type['email']
\* and findings_by_type['ssn'] of the analysis result stored with it, 0
\* standing for a missing key; a record of a successful process_text result
\* has sensitive_info_count = email_count + ssn_count, and a record of a
\* failed result has the three counters 0.
C24_CountersFollowStatistics ==
    \A r \in BagToSet(table) :
        LET a == JsonLoads(r.analysis_result)
            stats == a.statistics
            has_total == "total_findings" \in DOMAIN stats
            has_types == "findings_by_type" \in DOMAIN stats
            by_type == IF has_types THEN stats.findings_by_type ELSE <<>>
        IN /\ r.sensitive_info_count =
                 (IF has_total THEN stats.total_findings ELSE 0)
           /\ r.email_count =
                 (IF has_types /\ "email" \in DOMAIN by_type
                  THEN by_type.email ELSE 0)
           /\ r.ssn_count =
                 (IF has_types /\ "ssn" \in DOMAIN by_type
                  THEN by_type.ssn ELSE 0)
           /\ a.success =>
                 r.sensitive_info_count = r.email_count + r.ssn_count
           /\ ~a.success =>
                 /\ r.sensitive_info_count = 0
                 /\ r.email_count = 0
                 /\ r.ssn_count = 0

\* A record is stored from a successful result with two e-mail findings and
\* no 'ssn' key: its counters are 2, 2 and the default 0.
C24_Witness ==
    \E r \in BagToSet(table) :
        /\ JsonLoads(r.analysis_result).success
        /\ "ssn" \notin DOMAIN JsonLoads(r.analysis_result).statistics.findings_by_type
        /\ r.sensitive_info_count = 2
        /\ r.email_count = 2
        /\ r.ssn_count = 0

\* The step in which request c's health_check runs.
HealthStep(c) ==
    pc[c] = "idle" /\ pc'[c] = "done" /\ op'[c] = "health_check"

\* C25: a health_check that finds db_client initialized answers 'connected',
\* 'healthy', HTTP 200 and leaves db_client as it is, unless the connection
\* test against the store failed; only then is db_client reset to None.
C25_HealthyWhenReachable ==
    [][\A c \in Requests :
         (HealthStep(c) /\ db_client[Server] # PyNone) =>
            \/ /\ ret'[c].val[2].database = "connected"
               /\ ret'[c].val[2].status = "healthy"
               /\ ret'[c].val[2].status_code = 200
               /\ db_client' = db_client
            \/ /\ ret'[c].err = "query"
               /\ db_client'[Server] = PyNone]_vars

\* C26: while an upload_pdf request that has passed its availability check is
\* suspended at its await, the global db_client is not None, whatever other
\* requests run meanwhile; no upload ends in the AttributeError of a call on
\* None.
C26_ClientStaysAvailable ==
    \A c \in Requests :
        /\ (op[c] = "upload_pdf" /\ pc[c] = "await") =>
              db_client[Server] # PyNone
        /\ pc[c] = "done" => ret[c].err # "AttributeError"

\* The stored records named f, with multiplicity.
CountByFilename(f) ==
    BagCardinality([r \in {q \in BagToSet(table) : q.filename = f} |->
                      CopiesIn(r, table)])

\* C27 as stated: at most one record per filename is stored, after any
\* uploads.
C27_OneRecordPerFilename == \A f \in Filenames : CountByFilename(f) <= 1

\* C27 amended: an upload answered 'exists' carries the document_id of a
\* stored record of its filename and stores nothing; an upload that calls
\* store_document does so under an id no record has, so that the existence
\* check counts 0 and the statement issued is the INSERT of one record,
\* never the UPDATE; no two records share a document_id.
C27_UploadsInsertFreshIds ==
    [][\A c \in Requests :
         /\ (pc[c] = "idle" /\ pc'[c] = "done" /\ op'[c] = "upload_pdf"
               /\ ret'[c].val[2].status = "exists") =>
              /\ table' = table
              /\ existing' = existing
              /\ \E r \in BagToSet(table) :
                   /\ r.filename = args'[c].filename
                   /\ r.document_id = ret'[c].val[2].document_id
         /\ (pc[c] = "await" /\ pc'[c] = "done") =>
              /\ CountById(args[c].document_id) = 0
              /\ existing'[c] = 0
              /\ \/ /\ table' = table
                    /\ ret'[c].val[2].status = "error"
                 \/ /\ table' = InsertRow(DataRow(args'[c], args'[c].timestamp))
                    /\ ret'[c].val[2].status = "success"
                    /\ ret'[c].val[2].document_id = args[c].document_id
         /\ \A r \in BagToSet(table') : CountById(r.document_id)' = 1]_vars

\* One upload of a.pdf was stored and answered 'success'; another upload of
\* a.pdf was answered 'exists' with the stored record's document_id.
C27_Witness ==
    \E c \in Requests : \E d \in Requests :
        /\ pc[c] = "done" /\ op[c] = "upload_pdf"
        /\ ret[c].val[2].status = "success"
        /\ pc[d] = "done" /\ op[d] = "upload_pdf"
        /\ ret[d].val[2].status = "exists"
        /\ ret[d].val[2].document_id = ret[c].val[2].document_id
        /\ CountByFilename(args[c].filename) = 1


====
